---------------------------- MODULE Spec2Model ----------------------------
(***************************************************************************)
(* Model of subboard-next-backend: the paper and question records          *)
(* (src/src/paper.rs, src/src/question.rs), their request handlers and     *)
(* the two dmds worlds configured in src/src/main.rs.                      *)
(*                                                                         *)
(* The storage engine itself (crate dmds: World, Select, Lazy, the         *)
(* persistence daemon of dmds_tokio_fs) is not part of src/; its           *)
(* operations are modelled from sections 4.3 to 4.7 of the design and are  *)
(* grouped under "Storage engine" below.                                   *)
(***************************************************************************)
EXTENDS Integers, Sequences, FiniteSets, TLC

VARIABLES
    papers,     \* in-memory view of the papers world: set of [pos, rec]
    disk,       \* durable units of the papers world: set of [pos, dims, bytes]
    dirty,      \* chunk positions with unflushed in-memory mutations
    leases,     \* outstanding mutable leases: set of [holder, pos, id]
    pc,         \* per client: position inside the handler it is running
    req,        \* per client: the request being served
    hnd,        \* per client: candidates still to come and the current handle
    resp,       \* per client: the response of the finished request
    probe,      \* scratch record of the conversion pipeline (codec checks)
    daemon,     \* the persistence daemon of the papers world: its cycle
    questions   \* in-memory view of the questions world: set of [pos, rec]

vars == <<papers, disk, dirty, leases, pc, req, hnd, resp, probe, daemon, questions>>

(***************************************************************************)
(* Bounds of the model.                                                    *)
(***************************************************************************)
\* longest name / info / email string enumerated for the conversions
MaxLen == 1
\* creation times range over 0..MaxTime
MaxTime == 1
\* schema versions handed to Question::decode range over 0..MaxVersion
MaxVersion == 2

\* 'a', 'b'
Chars == {97, 98}

Strings(n) == UNION {[1..k -> Chars] : k \in 0..n}

\* Option<lettre::Address>: <<>> is None, <<s>> is Some(s); an address is
\* never empty.
OptAddress(n) == {<<>>} \cup {<<s>> : s \in Strings(n) \ {<<>>}}

Times == 0..MaxTime

Versions == 0..MaxVersion

(***************************************************************************)
(* paper.rs: Status, Paper, In, Store                                      *)
(***************************************************************************)
Pending == 0
Approved == 1

\* paper::In / question::In: what the frontend sends
AllIn == [name : Strings(MaxLen), info : Strings(MaxLen), email : OptAddress(MaxLen)]

\* the width of one chunk of dimension 0 of the papers world.  The source
\* splits the u64 range ..=u64::MAX into 32 chunks of 2^59 values; the model
\* keeps the 32 chunks and scales the width to 2^5.
PapersDim0PerChunk == 32
\* dimension 1 of the papers world: range ..=1, one value per chunk
PapersDim1PerChunk == 1
\* questions world: 16 chunks of 2^60 values, scaled alike to 2^6
QuestionsDim0PerChunk == 64

\* size of the (scaled) identifier space
HashSpace == 32 * PapersDim0PerChunk

\* The byte stream #[derive(Hash)] feeds the hasher for an In: each string
\* is followed by 0xff, the Option by its discriminant.
HashStream(value) ==
    value.name \o <<255>> \o value.info \o <<255>> \o
    (IF value.email = <<>> THEN <<0>> ELSE <<1>> \o value.email[1] \o <<255>>)

RECURSIVE Fold(_, _, _)
Fold(stream, h, k) ==
    IF stream = <<>> THEN h
    ELSE Fold(Tail(stream), (h * k + Head(stream)) % HashSpace, k)

\* DefaultHasher (SipHash 1-3) over the stream; abstracted to a
\* deterministic fold into the scaled identifier space.
DefaultHasher(value) == Fold(HashStream(value), 7, 31)

\* SipHasher24 over the same stream (a different function of it)
SipHasher24(value) == Fold(HashStream(value), 11, 37)

\* variant of From<In> in which the creation time is hashed with the content
MutPaperFromStamped(value, now) ==
    [name |-> value.name, info |-> value.info, email |-> value.email,
     pid |-> (DefaultHasher(value) + now) % HashSpace, time |-> now,
     status |-> Pending]

\* impl From<In> for Paper; now is the value Utc::now() returns
PaperFrom(value, now) ==
    [name |-> value.name, info |-> value.info, email |-> value.email,
     pid |-> DefaultHasher(value), time |-> now, status |-> Pending]

\* impl From<In> for Question
QuestionFrom(value, now) ==
    [name |-> value.name, info |-> value.info, email |-> value.email,
     pid |-> SipHasher24(value), time |-> now]

\* Paper::approve
Paper_approve(self) == [self EXCEPT !.status = Approved]

\* Paper::to_store / Question::to_store
Paper_to_store(self) ==
    [name |-> self.name, info |-> self.info, email |-> self.email,
     time |-> self.time]

Question_to_store(self) ==
    [name |-> self.name, info |-> self.info, email |-> self.email,
     time |-> self.time]

\* Paper::to_out
Paper_to_out(self) ==
    [name |-> self.name, info |-> self.info, email |-> self.email,
     pid |-> self.pid, time |-> self.time]

\* dmds::Data::dim for Paper (dimensions are numbered from 0 in the source;
\* the tuple below holds dim(0), dim(1))
Paper_dims(self) == <<self.pid, self.status>>

\* dmds::Data::dim for Question
Question_dims(self) == <<self.pid>>

(***************************************************************************)
(* Codec: bincode over Store                                               *)
(***************************************************************************)
RECURSIVE ToDigits(_)
ToDigits(n) ==
    IF n < 10 THEN <<48 + n>> ELSE ToDigits(n \div 10) \o <<48 + (n % 10)>>

IsDigits(s) == s # <<>> /\ \A i \in 1..Len(s) : s[i] \in 48..57

RECURSIVE FromDigits(_)
FromDigits(s) ==
    IF s = <<>> THEN 0
    ELSE 10 * FromDigits(SubSeq(s, 1, Len(s) - 1)) + (s[Len(s)] - 48)

\* a string: its length, then its bytes
WriteStr(s) == <<Len(s)>> \o s

\* read a string at index i: [ok, val, next]
ReadStr(buf, i) ==
    IF i > Len(buf) THEN [ok |-> FALSE, val |-> <<>>, next |-> i]
    ELSE IF i + buf[i] > Len(buf) THEN [ok |-> FALSE, val |-> <<>>, next |-> i]
    ELSE [ok |-> TRUE, val |-> SubSeq(buf, i + 1, i + buf[i]), next |-> i + buf[i] + 1]

\* variant of the serialization that writes a default time
MutSerializeNoTime(store) ==
    WriteStr(store.name) \o WriteStr(store.info) \o
    (IF store.email = <<>> THEN <<0>> ELSE <<1>> \o WriteStr(store.email[1])) \o
    WriteStr(ToDigits(0))

\* bincode::serialize_into for Store: name, info, the Option tag and the
\* address, the time as its RFC 3339 text
bincode_serialize(store) ==
    WriteStr(store.name) \o WriteStr(store.info) \o
    (IF store.email = <<>> THEN <<0>> ELSE <<1>> \o WriteStr(store.email[1])) \o
    WriteStr(ToDigits(store.time))

DecodeErr == [ok |-> FALSE]

\* bincode::deserialize_from for Store
bincode_deserialize(buf) ==
    LET n == ReadStr(buf, 1)
        i == ReadStr(buf, n.next)
        tagAt == i.next
    IN  IF ~n.ok \/ ~i.ok \/ tagAt > Len(buf) THEN DecodeErr
        ELSE IF buf[tagAt] \notin {0, 1} THEN DecodeErr
        ELSE LET e == IF buf[tagAt] = 0
                      THEN [ok |-> TRUE, val |-> <<>>, next |-> tagAt + 1]
                      ELSE ReadStr(buf, tagAt + 1)
                 t == ReadStr(buf, e.next)
             IN  IF ~e.ok \/ ~t.ok THEN DecodeErr
                 ELSE IF buf[tagAt] = 1 /\ e.val = <<>> THEN DecodeErr
                 ELSE IF ~IsDigits(t.val) THEN DecodeErr
                 ELSE [ok |-> TRUE,
                       val |-> [name |-> n.val, info |-> i.val,
                                email |-> IF buf[tagAt] = 0 THEN <<>> ELSE <<e.val>>,
                                time |-> FromDigits(t.val)]]

\* Paper::encode
Paper_encode(self) == bincode_serialize(Paper_to_store(self))

\* Paper::decode
Paper_decode(dims, buf) ==
    LET inner == bincode_deserialize(buf)
    IN  IF ~inner.ok THEN DecodeErr
        ELSE [ok |-> TRUE,
              val |-> [name |-> inner.val.name, info |-> inner.val.info,
                       email |-> inner.val.email, time |-> inner.val.time,
                       pid |-> dims[1],
                       status |-> IF dims[2] % 256 = Pending THEN Pending
                                  ELSE Approved]]

\* Question::VERSION
QuestionVersion == 1

\* Question::encode
Question_encode(self) == bincode_serialize(Question_to_store(self))

\* Question::decode; a version other than 1 reaches unreachable!()
Question_decode(version, dims, buf) ==
    IF version = 1
    THEN LET inner == bincode_deserialize(buf)
         IN  IF ~inner.ok THEN DecodeErr
             ELSE [ok |-> TRUE,
                   val |-> [name |-> inner.val.name, info |-> inner.val.info,
                            email |-> inner.val.email, pid |-> dims[1],
                            time |-> inner.val.time]]
    ELSE [ok |-> FALSE, panic |-> TRUE]


(***************************************************************************)
(* Storage engine (crate dmds), modelled from the design, sections 4.3-4.6 *)
(***************************************************************************)
\* variant of the world in which dimension 1 is not partitioned: both
\* status values fall into one chunk
MutLocateOneStatusChunk(dims) ==
    <<dims[1] \div PapersDim0PerChunk, 0>>

\* main.rs, world! of papers: the chunk position of a dimension tuple
Locate(dims) ==
    <<dims[1] \div PapersDim0PerChunk, dims[2] \div PapersDim1PerChunk>>

NoAddr == [pos |-> <<>>, id |-> -1]

NoRec ==
    [name |-> <<>>, info |-> <<>>, email |-> <<>>, pid |-> -1, time |-> 0,
     status |-> Pending]

AddrOf(e) == [pos |-> e.pos, id |-> e.rec.pid]

EntryAt(store, a) == {e \in store : AddrOf(e) = a}

\* select(dim, value).and(dim, value)...: cons is a set of <<dim, value>>,
\* dimensions numbered from 0 as in the source
Select(store, cons) ==
    {e \in store : \A c \in cons : Paper_dims(e.rec)[c[1] + 1] = c[2]}

\* Select::hint(id): the scan of a chunk may stop at the entry with that id
SelectHint(store, cons, hint) ==
    {e \in Select(store, cons) : e.rec.pid = hint}

\* World::try_insert: Conflict when the full dimension tuple is present
try_insert(store, value) ==
    IF \E e \in store : Paper_dims(e.rec) = Paper_dims(value)
    THEN [ok |-> FALSE, store |-> store]
    ELSE [ok |-> TRUE,
          store |-> store \cup {[pos |-> Locate(Paper_dims(value)), rec |-> value]}]

\* World::insert: replaces the entry of the same tuple and returns it
insert(store, value) ==
    LET old == {e \in store : Paper_dims(e.rec) = Paper_dims(value)}
    IN  [prev |-> old,
         store |-> (store \ old) \cup
                   {[pos |-> Locate(Paper_dims(value)), rec |-> value]}]

\* Lazy::get: the stored value at the handle's address
get(store, a) ==
    IF EntryAt(store, a) = {} THEN [ok |-> FALSE, err |-> "NotFound", val |-> NoRec]
    ELSE [ok |-> TRUE, err |-> "None", val |-> (CHOOSE e \in EntryAt(store, a) : TRUE).rec]

\* Lazy::get_mut: the lease, or LeaseConflict when one is outstanding
get_mut(store, held, a) ==
    IF EntryAt(store, a) = {} THEN [ok |-> FALSE, err |-> "NotFound", val |-> NoRec]
    ELSE IF \E l \in held : l.pos = a.pos /\ l.id = a.id
    THEN [ok |-> FALSE, err |-> "Conflict", val |-> NoRec]
    ELSE [ok |-> TRUE, err |-> "None", val |-> (CHOOSE e \in EntryAt(store, a) : TRUE).rec]

\* Lazy::close: write the leased value back; a changed dimension value moves
\* the record to the chunk its tuple now locates, in one critical section
close(store, a, val) ==
    LET dest == Locate(Paper_dims(val))
        there == {e \in store : e.pos = dest /\ e.rec.pid = val.pid}
    IN  ((store \ EntryAt(store, a)) \ there) \cup {[pos |-> dest, rec |-> val]}

\* Lazy::destroy: NotFound when the record is no longer there; the lease is
\* the exclusive right to mutate or delete, so a record leased to another
\* caller is not removed
destroy(store, held, a) ==
    IF EntryAt(store, a) = {} THEN [ok |-> FALSE, err |-> "NotFound", store |-> store]
    ELSE IF \E l \in held : l.pos = a.pos /\ l.id = a.id
    THEN [ok |-> FALSE, err |-> "Conflict", store |-> store]
    ELSE [ok |-> TRUE, err |-> "None", store |-> store \ EntryAt(store, a)]

(***************************************************************************)
(* Clients of the router: each serves one request at a time                *)
(***************************************************************************)
Clients == {"c1", "c2"}

\* the contents the clients post: same name, no email, two different infos
PostInputs ==
    {v \in AllIn : v.name = <<97>> /\ Len(v.info) = 1 /\ v.email = <<>>}

\* the pids the management clients ask to approve or reject
ReqPids == {DefaultHasher(v) : v \in PostInputs}

NoReq == [op |-> "none", pid |-> -1, value |-> NoRec]

\* todo: candidates the stream has still to yield; cur: the handle in hand;
\* val: the leased paper; ret: the papers collected; eres: the last result
\* of the engine; bad: the addresses whose read failed during this scan
NoHnd ==
    [todo |-> {}, cur |-> NoAddr, val |-> NoRec, ret |-> <<>>, eres |-> "None",
     bad |-> {}]

NoResp == [status |-> "None", body |-> <<>>]

\* the daemon between two cycles, nothing logged
NoDaemon == [pc |-> "sleep", todo |-> {}, failed |-> {}]

Idle(c) == pc[c] = "idle"

\* the handler returns: the response is recorded
Respond(c, status, body) ==
    /\ pc' = [pc EXCEPT ![c] = "done"]
    /\ resp' = [resp EXCEPT ![c] = [status |-> status, body |-> body]]

Init ==
    /\ papers = {}
    /\ disk = {}
    /\ dirty = {}
    /\ leases = {}
    /\ pc = [c \in Clients |-> "idle"]
    /\ req = [c \in Clients |-> NoReq]
    /\ hnd = [c \in Clients |-> NoHnd]
    /\ resp = [c \in Clients |-> NoResp]
    /\ probe = [stage |-> "none"]
    /\ daemon = NoDaemon
    /\ questions = {}

\* the response has been sent; the client may issue its next request
Return(c) ==
    /\ pc[c] = "done"
    /\ pc' = [pc EXCEPT ![c] = "idle"]
    /\ req' = [req EXCEPT ![c] = NoReq]
    /\ hnd' = [hnd EXCEPT ![c] = NoHnd]
    /\ resp' = [resp EXCEPT ![c] = NoResp]
    /\ UNCHANGED <<papers, disk, dirty, leases, probe, daemon, questions>>

(***************************************************************************)
(* paper::post                                                             *)
(***************************************************************************)
\* variant of post that calls insert, which replaces, and reports success
MutPostInsert(c, value, now) ==
    /\ Idle(c)
    /\ LET paper == PaperFrom(value, now)
           r == insert(papers, paper)
       IN  /\ req' = [req EXCEPT ![c] = [op |-> "post", pid |-> paper.pid, value |-> paper]]
           /\ papers' = r.store
           /\ dirty' = dirty \cup {Locate(Paper_dims(paper))}
           /\ Respond(c, "Ok", <<>>)
    /\ UNCHANGED <<disk, leases, hnd, probe, daemon, questions>>

\* paper.into(), papers.try_insert(paper), Err mapped to PidConflict
post(c, value, now) ==
    /\ Idle(c)
    /\ LET paper == PaperFrom(value, now)
           r == try_insert(papers, paper)
       IN  /\ req' = [req EXCEPT ![c] = [op |-> "post", pid |-> paper.pid, value |-> paper]]
           /\ papers' = r.store
           /\ dirty' = IF r.ok THEN dirty \cup {Locate(Paper_dims(paper))} ELSE dirty
           /\ Respond(c, IF r.ok THEN "Ok" ELSE "PidConflict", <<>>)
    /\ UNCHANGED <<disk, leases, hnd, probe, daemon, questions>>

(***************************************************************************)
(* paper::approve                                                          *)
(***************************************************************************)
\* the request arrives: select(0, pid).and(1, Pending).hint(pid)
approve_select(c, pid) ==
    /\ Idle(c)
    /\ req' = [req EXCEPT ![c] = [op |-> "approve", pid |-> pid, value |-> NoRec]]
    /\ hnd' = [hnd EXCEPT ![c] =
                 [NoHnd EXCEPT !.todo =
                     {AddrOf(e) : e \in SelectHint(papers, {<<0, pid>>, <<1, Pending>>}, pid)}]]
    /\ pc' = [pc EXCEPT ![c] = "approve_next"]
    /\ UNCHANGED <<papers, disk, dirty, leases, resp, probe, daemon, questions>>

\* papers_iter.next(): the next candidate, or Err(NotFound) after the loop
approve_next(c) ==
    /\ pc[c] = "approve_next"
    /\ \/ /\ hnd[c].todo = {}
          /\ Respond(c, "NotFound", <<>>)
          /\ UNCHANGED hnd
       \/ \E a \in hnd[c].todo :
            /\ hnd' = [hnd EXCEPT ![c].todo = @ \ {a}, ![c].cur = a]
            /\ pc' = [pc EXCEPT ![c] =
                        IF a.id = req[c].pid THEN "approve_get_mut" ELSE "approve_next"]
            /\ UNCHANGED resp
    /\ UNCHANGED <<papers, disk, dirty, leases, req, probe, daemon, questions>>

\* variant of approve that takes the mutable view without asking for the
\* lease
MutApproveGetMutUnchecked(c) ==
    /\ pc[c] = "approve_get_mut"
    /\ LET r == get(papers, hnd[c].cur)
       IN  IF r.ok
           THEN /\ leases' = leases \cup
                       {[holder |-> c, pos |-> hnd[c].cur.pos, id |-> hnd[c].cur.id]}
                /\ hnd' = [hnd EXCEPT ![c].val = r.val, ![c].eres = "Ok"]
                /\ pc' = [pc EXCEPT ![c] = "approve_close"]
           ELSE /\ hnd' = [hnd EXCEPT ![c].eres = r.err]
                /\ pc' = [pc EXCEPT ![c] = "approve_next"]
                /\ UNCHANGED leases
    /\ UNCHANGED <<papers, disk, dirty, req, resp, probe, daemon, questions>>

\* lazy.get_mut(): on Ok the lease is held and the paper is in hand; on Err
\* the loop goes on
approve_get_mut(c) ==
    /\ pc[c] = "approve_get_mut"
    /\ LET r == get_mut(papers, leases, hnd[c].cur)
       IN  IF r.ok
           THEN /\ leases' = leases \cup
                       {[holder |-> c, pos |-> hnd[c].cur.pos, id |-> hnd[c].cur.id]}
                /\ hnd' = [hnd EXCEPT ![c].val = r.val, ![c].eres = "Ok"]
                /\ pc' = [pc EXCEPT ![c] = "approve_close"]
           ELSE /\ hnd' = [hnd EXCEPT ![c].eres = r.err]
                /\ pc' = [pc EXCEPT ![c] = "approve_next"]
                /\ UNCHANGED leases
    /\ UNCHANGED <<papers, disk, dirty, req, resp, probe, daemon, questions>>

\* variant of approve that flips the status of the stored record where it
\* lies, without relocating it
MutApproveInPlace(c) ==
    /\ pc[c] = "approve_close"
    /\ LET paper == Paper_approve(hnd[c].val)
       IN  /\ papers' = (papers \ EntryAt(papers, hnd[c].cur)) \cup
                            {[pos |-> hnd[c].cur.pos, rec |-> paper]}
           /\ dirty' = dirty \cup {hnd[c].cur.pos}
    /\ leases' = {l \in leases : l.holder # c}
    /\ hnd' = [hnd EXCEPT ![c].eres = "Ok"]
    /\ Respond(c, "Ok", <<>>)
    /\ UNCHANGED <<disk, req, probe, daemon, questions>>

\* paper.approve(); lazy.close(): the record moves to the chunk of its new
\* status and the lease ends
approve_close(c) ==
    /\ pc[c] = "approve_close"
    /\ LET paper == Paper_approve(hnd[c].val)
       IN  /\ papers' = close(papers, hnd[c].cur, paper)
           /\ dirty' = dirty \cup {hnd[c].cur.pos, Locate(Paper_dims(paper))}
    /\ leases' = {l \in leases : l.holder # c}
    /\ hnd' = [hnd EXCEPT ![c].eres = "Ok"]
    /\ Respond(c, "Ok", <<>>)
    /\ UNCHANGED <<disk, req, probe, daemon, questions>>

(***************************************************************************)
(* paper::reject                                                           *)
(***************************************************************************)
\* variant of reject that selects by pid alone, whatever the status
MutRejectSelectAnyStatus(c, pid) ==
    /\ Idle(c)
    /\ req' = [req EXCEPT ![c] = [op |-> "reject", pid |-> pid, value |-> NoRec]]
    /\ hnd' = [hnd EXCEPT ![c] =
                 [NoHnd EXCEPT !.todo =
                     {AddrOf(e) : e \in SelectHint(papers, {<<0, pid>>}, pid)}]]
    /\ pc' = [pc EXCEPT ![c] = "reject_next"]
    /\ UNCHANGED <<papers, disk, dirty, leases, resp, probe, daemon, questions>>

\* the request arrives: select(0, pid).and(1, Pending).hint(pid)
reject_select(c, pid) ==
    /\ Idle(c)
    /\ req' = [req EXCEPT ![c] = [op |-> "reject", pid |-> pid, value |-> NoRec]]
    /\ hnd' = [hnd EXCEPT ![c] =
                 [NoHnd EXCEPT !.todo =
                     {AddrOf(e) : e \in SelectHint(papers, {<<0, pid>>, <<1, Pending>>}, pid)}]]
    /\ pc' = [pc EXCEPT ![c] = "reject_next"]
    /\ UNCHANGED <<papers, disk, dirty, leases, resp, probe, daemon, questions>>

reject_next(c) ==
    /\ pc[c] = "reject_next"
    /\ \/ /\ hnd[c].todo = {}
          /\ Respond(c, "NotFound", <<>>)
          /\ UNCHANGED hnd
       \/ \E a \in hnd[c].todo :
            /\ hnd' = [hnd EXCEPT ![c].todo = @ \ {a}, ![c].cur = a]
            /\ pc' = [pc EXCEPT ![c] =
                        IF a.id = req[c].pid THEN "reject_destroy" ELSE "reject_next"]
            /\ UNCHANGED resp
    /\ UNCHANGED <<papers, disk, dirty, leases, req, probe, daemon, questions>>

\* variant of reject that answers success without removing the record
MutRejectKeeps(c) ==
    /\ pc[c] = "reject_destroy"
    /\ LET r == destroy(papers, leases, hnd[c].cur)
       IN  /\ hnd' = [hnd EXCEPT ![c].eres = IF r.ok THEN "Ok" ELSE r.err]
           /\ Respond(c, "Ok", <<>>)
    /\ UNCHANGED <<papers, dirty, disk, leases, req, probe, daemon, questions>>

\* variant of reject whose destroy does not look at the leases of others
MutRejectDestroyUnleased(c) ==
    /\ pc[c] = "reject_destroy"
    /\ LET r == destroy(papers, {}, hnd[c].cur)
       IN  /\ papers' = r.store
           /\ dirty' = IF r.ok THEN dirty \cup {hnd[c].cur.pos} ELSE dirty
           /\ hnd' = [hnd EXCEPT ![c].eres = IF r.ok THEN "Ok" ELSE r.err]
           /\ Respond(c, IF r.ok THEN "Ok" ELSE "Db", <<>>)
    /\ UNCHANGED <<disk, leases, req, probe, daemon, questions>>

\* return lazy.destroy().await.map_err(|err| Error::Db)
reject_destroy(c) ==
    /\ pc[c] = "reject_destroy"
    /\ LET r == destroy(papers, leases, hnd[c].cur)
       IN  /\ papers' = r.store
           /\ dirty' = IF r.ok THEN dirty \cup {hnd[c].cur.pos} ELSE dirty
           /\ hnd' = [hnd EXCEPT ![c].eres = IF r.ok THEN "Ok" ELSE r.err]
           /\ Respond(c, IF r.ok THEN "Ok" ELSE "Db", <<>>)
    /\ UNCHANGED <<disk, leases, req, probe, daemon, questions>>

(***************************************************************************)
(* paper::get                                                              *)
(***************************************************************************)
\* select(1, Approved), the ids collected, fastrand::choice among them
get_choose(c) ==
    /\ Idle(c)
    /\ LET ids == {e.rec.pid : e \in Select(papers, {<<1, Approved>>})}
       IN  \/ /\ ids = {}
              /\ req' = [req EXCEPT ![c] = [op |-> "get", pid |-> -1, value |-> NoRec]]
              /\ Respond(c, "NoPaper", <<>>)
           \/ \E pid \in ids :
                /\ req' = [req EXCEPT ![c] = [op |-> "get", pid |-> pid, value |-> NoRec]]
                /\ pc' = [pc EXCEPT ![c] = "get_select"]
                /\ UNCHANGED resp
    /\ UNCHANGED <<papers, disk, dirty, leases, hnd, probe, daemon, questions>>

\* select(0, pid).hint(pid): no constraint on the status
get_select(c) ==
    /\ pc[c] = "get_select"
    /\ hnd' = [hnd EXCEPT ![c] =
                 [NoHnd EXCEPT !.todo =
                     {AddrOf(e) : e \in SelectHint(papers, {<<0, req[c].pid>>}, req[c].pid)}]]
    /\ pc' = [pc EXCEPT ![c] = "get_next"]
    /\ UNCHANGED <<papers, disk, dirty, leases, req, resp, probe, daemon, questions>>

get_next(c) ==
    /\ pc[c] = "get_next"
    /\ \/ /\ hnd[c].todo = {}
          /\ Respond(c, "Db", <<>>)
          /\ UNCHANGED hnd
       \/ \E a \in hnd[c].todo :
            /\ hnd' = [hnd EXCEPT ![c].todo = @ \ {a}, ![c].cur = a]
            /\ pc' = [pc EXCEPT ![c] =
                        IF a.id = req[c].pid THEN "get_read" ELSE "get_next"]
            /\ UNCHANGED resp
    /\ UNCHANGED <<papers, disk, dirty, leases, req, probe, daemon, questions>>

\* lazy.get(): Ok(val) is returned as the response, Err goes on with the loop
get_read(c) ==
    /\ pc[c] = "get_read"
    /\ LET r == get(papers, hnd[c].cur)
       IN  IF r.ok
           THEN /\ hnd' = [hnd EXCEPT ![c].eres = "Ok"]
                /\ Respond(c, "Ok", <<r.val>>)
           ELSE /\ hnd' = [hnd EXCEPT ![c].eres = r.err]
                /\ pc' = [pc EXCEPT ![c] = "get_next"]
                /\ UNCHANGED resp
    /\ UNCHANGED <<papers, disk, dirty, leases, req, probe, daemon, questions>>

(***************************************************************************)
(* paper::unprocessed                                                      *)
(***************************************************************************)
\* variant of unprocessed that selects by the other status
MutUnprocessedSelectApproved(c) ==
    /\ Idle(c)
    /\ req' = [req EXCEPT ![c] = [op |-> "unprocessed", pid |-> -1, value |-> NoRec]]
    /\ hnd' = [hnd EXCEPT ![c] =
                 [NoHnd EXCEPT !.todo =
                     {AddrOf(e) : e \in Select(papers, {<<1, Approved>>})}]]
    /\ pc' = [pc EXCEPT ![c] = "unprocessed_next"]
    /\ UNCHANGED <<papers, disk, dirty, leases, resp, probe, daemon, questions>>

\* select(1, Pending): the candidates are the pending papers
unprocessed_select(c) ==
    /\ Idle(c)
    /\ req' = [req EXCEPT ![c] = [op |-> "unprocessed", pid |-> -1, value |-> NoRec]]
    /\ hnd' = [hnd EXCEPT ![c] =
                 [NoHnd EXCEPT !.todo =
                     {AddrOf(e) : e \in Select(papers, {<<1, Pending>>})}]]
    /\ pc' = [pc EXCEPT ![c] = "unprocessed_next"]
    /\ UNCHANGED <<papers, disk, dirty, leases, resp, probe, daemon, questions>>

\* variant of unprocessed that takes each record out of the store as it
\* reads it
MutUnprocessedTakes(c) ==
    /\ pc[c] = "unprocessed_next"
    /\ \/ /\ hnd[c].todo = {}
          /\ Respond(c, "Ok", hnd[c].ret)
          /\ UNCHANGED <<hnd, papers>>
       \/ /\ \E a \in hnd[c].todo :
               LET r == get(papers, a)
               IN  /\ hnd' = [hnd EXCEPT ![c].todo = @ \ {a}, ![c].cur = a,
                                         ![c].eres = IF r.ok THEN "Ok" ELSE r.err,
                                         ![c].ret = IF r.ok THEN Append(@, Paper_to_out(r.val))
                                                    ELSE @]
                   /\ papers' = papers \ EntryAt(papers, a)
          /\ UNCHANGED <<pc, resp>>
    /\ UNCHANGED <<disk, dirty, leases, req, probe, daemon, questions>>

\* papers_iter.next() and lazy.get(): a readable candidate is pushed to ret,
\* an unreadable one is skipped; after the loop Json(ret) is returned
unprocessed_next(c) ==
    /\ pc[c] = "unprocessed_next"
    /\ \/ /\ hnd[c].todo = {}
          /\ Respond(c, "Ok", hnd[c].ret)
          /\ UNCHANGED hnd
       \/ /\ \E a \in hnd[c].todo :
               LET r == get(papers, a)
               IN  hnd' = [hnd EXCEPT ![c].todo = @ \ {a}, ![c].cur = a,
                                      ![c].eres = IF r.ok THEN "Ok" ELSE r.err,
                                      ![c].ret = IF r.ok THEN Append(@, Paper_to_out(r.val))
                                                 ELSE @]
          /\ UNCHANGED <<pc, resp>>
    /\ UNCHANGED <<papers, disk, dirty, leases, req, probe, daemon, questions>>

(***************************************************************************)
(* The server: the handlers of all clients, interleaved at their awaits    *)
(***************************************************************************)
Next ==
    \E c \in Clients :
        \/ \E value \in PostInputs, now \in Times : post(c, value, now)
        \/ \E pid \in ReqPids : approve_select(c, pid)
        \/ approve_next(c)
        \/ approve_get_mut(c)
        \/ approve_close(c)
        \/ \E pid \in ReqPids : reject_select(c, pid)
        \/ reject_next(c)
        \/ reject_destroy(c)
        \/ get_choose(c)
        \/ get_select(c)
        \/ get_next(c)
        \/ get_read(c)
        \/ unprocessed_select(c)
        \/ unprocessed_next(c)
        \/ Return(c)

Spec == Init /\ [][Next]_vars

(***************************************************************************)
(* The conversions on their own: From<In>, Paper::approve, encode, decode  *)
(***************************************************************************)
\* a paper is made from what the frontend sent, at some time
convert_paper(value, now) ==
    /\ probe.stage = "none"
    /\ probe' = [stage |-> "paper", value |-> value, rec |-> PaperFrom(value, now)]
    /\ UNCHANGED <<papers, disk, dirty, leases, pc, req, hnd, resp, daemon, questions>>

\* the same content is converted once more, at another time
convert_paper_again(now) ==
    /\ probe.stage = "paper"
    /\ probe' = [stage |-> "paper_twice", value |-> probe.value, rec |-> probe.rec,
                 again |-> PaperFrom(probe.value, now)]
    /\ UNCHANGED <<papers, disk, dirty, leases, pc, req, hnd, resp, daemon, questions>>

probe_approve ==
    /\ probe.stage = "paper"
    /\ probe.rec.status = Pending
    /\ probe' = [probe EXCEPT !.rec = Paper_approve(@)]
    /\ UNCHANGED <<papers, disk, dirty, leases, pc, req, hnd, resp, daemon, questions>>

encode_paper ==
    /\ probe.stage = "paper"
    /\ probe' = [stage |-> "paper_bytes", rec |-> probe.rec,
                 dims |-> Paper_dims(probe.rec), bytes |-> Paper_encode(probe.rec)]
    /\ UNCHANGED <<papers, disk, dirty, leases, pc, req, hnd, resp, daemon, questions>>

decode_paper ==
    /\ probe.stage = "paper_bytes"
    /\ probe' = [stage |-> "paper_back", rec |-> probe.rec, bytes |-> probe.bytes,
                 back |-> Paper_decode(probe.dims, probe.bytes)]
    /\ UNCHANGED <<papers, disk, dirty, leases, pc, req, hnd, resp, daemon, questions>>

convert_question(value, now) ==
    /\ probe.stage = "none"
    /\ probe' = [stage |-> "question", value |-> value, rec |-> QuestionFrom(value, now)]
    /\ UNCHANGED <<papers, disk, dirty, leases, pc, req, hnd, resp, daemon, questions>>

convert_question_again(now) ==
    /\ probe.stage = "question"
    /\ probe' = [stage |-> "question_twice", value |-> probe.value, rec |-> probe.rec,
                 again |-> QuestionFrom(probe.value, now)]
    /\ UNCHANGED <<papers, disk, dirty, leases, pc, req, hnd, resp, daemon, questions>>

encode_question ==
    /\ probe.stage = "question"
    /\ probe' = [stage |-> "question_bytes", rec |-> probe.rec,
                 dims |-> Question_dims(probe.rec), bytes |-> Question_encode(probe.rec)]
    /\ UNCHANGED <<papers, disk, dirty, leases, pc, req, hnd, resp, daemon, questions>>

decode_question ==
    /\ probe.stage = "question_bytes"
    /\ probe' = [stage |-> "question_back", rec |-> probe.rec, bytes |-> probe.bytes,
                 back |-> Question_decode(QuestionVersion, probe.dims, probe.bytes)]
    /\ UNCHANGED <<papers, disk, dirty, leases, pc, req, hnd, resp, daemon, questions>>

\* the engine reads an entry back and hands decode the version it finds
\* stored with it
decode_question_version(version) ==
    /\ probe.stage = "question_bytes"
    /\ probe' = [stage |-> "question_read", rec |-> probe.rec, bytes |-> probe.bytes,
                 version |-> version,
                 back |-> Question_decode(version, probe.dims, probe.bytes)]
    /\ UNCHANGED <<papers, disk, dirty, leases, pc, req, hnd, resp, daemon, questions>>

NextCodec ==
    \/ \E value \in AllIn, now \in Times : convert_paper(value, now)
    \/ \E now \in Times : convert_paper_again(now)
    \/ probe_approve
    \/ encode_paper
    \/ decode_paper
    \/ \E value \in AllIn, now \in Times : convert_question(value, now)
    \/ \E now \in Times : convert_question_again(now)
    \/ encode_question
    \/ decode_question
    \/ \E version \in Versions : decode_question_version(version)

SpecCodec == Init /\ [][NextCodec]_vars

(***************************************************************************)
(* Persistence daemon and restart (dmds_tokio_fs::daemon), modelled from   *)
(* the design, sections 4.7 and 6                                          *)
(***************************************************************************)
\* one durable unit per chunk: the entries of the chunk, each with its
\* dimension values and its encoded payload
Stored(store, pos) ==
    {[pos |-> pos, dims |-> Paper_dims(e.rec), bytes |-> Paper_encode(e.rec)] :
        e \in {x \in store : x.pos = pos}}

\* what a start of the process reads back from the durable units
Loaded(units) ==
    {[pos |-> d.pos, rec |-> Paper_decode(d.dims, d.bytes).val] :
        d \in {x \in units : Paper_decode(x.dims, x.bytes).ok}}

\* one dirty chunk is written to its durable unit and its flag is cleared
daemon_flush(pos) ==
    /\ pos \in dirty
    /\ disk' = {d \in disk : d.pos # pos} \cup Stored(papers, pos)
    /\ dirty' = dirty \ {pos}
    /\ UNCHANGED <<papers, leases, pc, req, hnd, resp, probe, daemon, questions>>

\* the process dies and is started again: memory is lost, the world is what
\* the durable units hold
crash ==
    /\ papers' = Loaded(disk)
    /\ dirty' = {}
    /\ leases' = {}
    /\ pc' = [c \in Clients |-> "idle"]
    /\ req' = [c \in Clients |-> NoReq]
    /\ hnd' = [c \in Clients |-> NoHnd]
    /\ resp' = [c \in Clients |-> NoResp]
    /\ daemon' = NoDaemon
    /\ UNCHANGED <<disk, probe, questions>>

\* every posted content has been stored as a pending paper and flushed
InitMove ==
    /\ papers = {[pos |-> Locate(Paper_dims(PaperFrom(v, 0))), rec |-> PaperFrom(v, 0)] :
                    v \in PostInputs}
    /\ disk = UNION {Stored(papers, pos) : pos \in {e.pos : e \in papers}}
    /\ dirty = {}
    /\ leases = {}
    /\ pc = [c \in Clients |-> "idle"]
    /\ req = [c \in Clients |-> NoReq]
    /\ hnd = [c \in Clients |-> NoHnd]
    /\ resp = [c \in Clients |-> NoResp]
    /\ probe = [stage |-> "none"]
    /\ daemon = NoDaemon
    /\ questions = {}

\* management clients approve papers while the daemon flushes; the process
\* may die at any point
NextMove ==
    \/ \E c \in Clients :
        \/ \E pid \in ReqPids : approve_select(c, pid)
        \/ approve_next(c)
        \/ approve_get_mut(c)
        \/ approve_close(c)
        \/ Return(c)
    \/ \E pos \in dirty : daemon_flush(pos)
    \/ crash

SpecMove == InitMove /\ [][NextMove]_vars

(***************************************************************************)
(* The daemon's cycle (dmds_tokio_fs::daemon, spawned in main.rs), with    *)
(* writes to the backend that may fail; modelled from the design, 4.7      *)
(***************************************************************************)
\* the client whose requests make chunks dirty while the daemon runs
SoleClient == {"c1"}

\* the content that client posts
DaemonInput == CHOOSE v \in PostInputs : TRUE

DaemonPid == DefaultHasher(DaemonInput)

\* the chunks a paper of that content can lie in
DaemonPos == {Locate(<<DaemonPid, s>>) : s \in {Pending, Approved}}

\* variant of the wake-up that leaves out the chunks whose last flush failed
MutWakeSkipsFailed ==
    /\ daemon.pc = "sleep"
    /\ daemon' = [daemon EXCEPT !.pc = "walk", !.todo = dirty \ daemon.failed]
    /\ UNCHANGED <<papers, disk, dirty, leases, pc, req, hnd, resp, probe, questions>>

\* the interval has elapsed: a cycle starts over the chunks that are dirty
daemon_wake ==
    /\ daemon.pc = "sleep"
    /\ daemon' = [daemon EXCEPT !.pc = "walk", !.todo = dirty]
    /\ UNCHANGED <<papers, disk, dirty, leases, pc, req, hnd, resp, probe, questions>>

\* variant of the flush that marks nothing: the chunk is written and stays
\* dirty for ever
MutFlushKeepsFlag(pos) ==
    /\ daemon.pc = "walk"
    /\ pos \in daemon.todo
    /\ disk' = {d \in disk : d.pos # pos} \cup Stored(papers, pos)
    /\ daemon' = [daemon EXCEPT !.todo = @ \ {pos}, !.failed = @ \ {pos}]
    /\ UNCHANGED <<papers, dirty, leases, pc, req, hnd, resp, probe, questions>>

\* the write of one chunk of the cycle succeeds: the durable unit is
\* replaced and the dirty flag is cleared
flush_ok(pos) ==
    /\ daemon.pc = "walk"
    /\ pos \in daemon.todo
    /\ disk' = {d \in disk : d.pos # pos} \cup Stored(papers, pos)
    /\ dirty' = dirty \ {pos}
    /\ daemon' = [daemon EXCEPT !.todo = @ \ {pos}, !.failed = @ \ {pos}]
    /\ UNCHANGED <<papers, leases, pc, req, hnd, resp, probe, questions>>

\* variant of the failed flush that clears the flag all the same
MutFlushFailClears(pos) ==
    /\ daemon.pc = "walk"
    /\ pos \in daemon.todo
    /\ dirty' = dirty \ {pos}
    /\ daemon' = [daemon EXCEPT !.todo = @ \ {pos}, !.failed = @ \cup {pos}]
    /\ UNCHANGED <<papers, disk, leases, pc, req, hnd, resp, probe, questions>>

\* the write fails with an I/O error: it is logged, the chunk stays dirty
\* and the cycle goes on
flush_fail(pos) ==
    /\ daemon.pc = "walk"
    /\ pos \in daemon.todo
    /\ daemon' = [daemon EXCEPT !.todo = @ \ {pos}, !.failed = @ \cup {pos}]
    /\ UNCHANGED <<papers, disk, dirty, leases, pc, req, hnd, resp, probe, questions>>

\* every chunk of the cycle has been attempted: the daemon sleeps until the
\* next interval
daemon_sleep ==
    /\ daemon.pc = "walk"
    /\ daemon.todo = {}
    /\ daemon' = [daemon EXCEPT !.pc = "sleep"]
    /\ UNCHANGED <<papers, disk, dirty, leases, pc, req, hnd, resp, probe, questions>>

ClientDaemon ==
    \E c \in SoleClient :
        \/ \E now \in Times : post(c, DaemonInput, now)
        \/ approve_select(c, DaemonPid)
        \/ approve_next(c)
        \/ approve_get_mut(c)
        \/ approve_close(c)
        \/ reject_select(c, DaemonPid)
        \/ reject_next(c)
        \/ reject_destroy(c)
        \/ Return(c)

StepDaemon ==
    \/ daemon_wake
    \/ \E pos \in DaemonPos : flush_ok(pos)
    \/ \E pos \in DaemonPos : flush_fail(pos)
    \/ daemon_sleep

NextDaemon == ClientDaemon \/ StepDaemon

SpecDaemon == Init /\ [][NextDaemon]_vars

\* the interval timer fires again and again and a cycle, once begun, is
\* carried on; a write that is attempted again and again succeeds at last
FairDaemon ==
    /\ WF_vars(daemon_wake)
    /\ WF_vars(daemon_sleep)
    /\ WF_vars(\E pos \in DaemonPos : flush_ok(pos) \/ flush_fail(pos))
    /\ \A pos \in DaemonPos : SF_vars(flush_ok(pos))

SpecLive == Init /\ [][NextDaemon]_vars /\ FairDaemon

(***************************************************************************)
(* post and the scans of unprocessed, approve and reject over a backend    *)
(* whose reads may fail: try_insert is Err when the chunk cannot be read,  *)
(* papers_iter.next() yields Some(Err(..)) for an entry it cannot read,    *)
(* lazy.get() and lazy.get_mut() yield Err for a payload that does not     *)
(* decode                                                                  *)
(***************************************************************************)
\* the contents stored when the scans start: the two of PostInputs and a
\* third whose pid lies in the chunk of the first
ScanInputs ==
    PostInputs \cup {[name |-> <<98>>, info |-> <<98>>, email |-> <<<<97>>>>]}

ScanPids == {DefaultHasher(v) : v \in ScanInputs}

InitScan ==
    /\ papers = {[pos |-> Locate(Paper_dims(PaperFrom(v, 0))), rec |-> PaperFrom(v, 0)] :
                    v \in ScanInputs}
    /\ disk = {}
    /\ dirty = {e.pos : e \in papers}
    /\ leases = {}
    /\ pc = [c \in Clients |-> "idle"]
    /\ req = [c \in Clients |-> NoReq]
    /\ hnd = [c \in Clients |-> NoHnd]
    /\ resp = [c \in Clients |-> NoResp]
    /\ probe = [stage |-> "none"]
    /\ daemon = NoDaemon
    /\ questions = {}

\* post: try_insert is Err because the chunk of the paper cannot be read;
\* map_err turns every Err into PidConflict and nothing is stored
post_io_err(c, value, now) ==
    /\ Idle(c)
    /\ LET paper == PaperFrom(value, now)
       IN  req' = [req EXCEPT ![c] = [op |-> "post", pid |-> paper.pid, value |-> paper]]
    /\ hnd' = [hnd EXCEPT ![c].eres = "Io"]
    /\ Respond(c, "PidConflict", <<>>)
    /\ UNCHANGED <<papers, disk, dirty, leases, probe, daemon, questions>>

\* unprocessed: next() yields Some(Err(..)) for a candidate; the pattern
\* Some(Ok(lazy)) of the while let does not match, the loop ends and
\* Json(ret) is returned with what was collected so far
unprocessed_next_err(c) ==
    /\ pc[c] = "unprocessed_next"
    /\ \E a \in hnd[c].todo :
          hnd' = [hnd EXCEPT ![c].todo = @ \ {a}, ![c].cur = a, ![c].eres = "Io",
                             ![c].bad = @ \cup {a}]
    /\ Respond(c, "Ok", hnd[c].ret)
    /\ UNCHANGED <<papers, disk, dirty, leases, req, probe, daemon, questions>>

\* unprocessed: next() yields Some(Ok(lazy)) and lazy.get() is Err: nothing
\* is pushed and the loop goes on
unprocessed_get_err(c) ==
    /\ pc[c] = "unprocessed_next"
    /\ \E a \in hnd[c].todo :
          hnd' = [hnd EXCEPT ![c].todo = @ \ {a}, ![c].cur = a, ![c].eres = "Decode",
                             ![c].bad = @ \cup {a}]
    /\ UNCHANGED <<papers, disk, dirty, leases, pc, req, resp, probe, daemon, questions>>

\* approve: next() yields Some(Err(..)) for an entry of a chunk it still has
\* to scan (the requested record or one that lies before it); the loop ends
\* and Err(NotFound) is returned
approve_next_err(c) ==
    /\ pc[c] = "approve_next"
    /\ \E e \in papers :
          /\ e.pos \in {a.pos : a \in hnd[c].todo}
          /\ hnd' = [hnd EXCEPT ![c].cur = AddrOf(e), ![c].eres = "Io",
                                ![c].bad = @ \cup {AddrOf(e)}]
    /\ Respond(c, "NotFound", <<>>)
    /\ UNCHANGED <<papers, disk, dirty, leases, req, probe, daemon, questions>>

\* approve: lazy.get_mut() is Err because the payload does not decode; no
\* lease is taken and the loop goes on
approve_get_mut_err(c) ==
    /\ pc[c] = "approve_get_mut"
    /\ hnd' = [hnd EXCEPT ![c].eres = "Decode", ![c].bad = @ \cup {hnd[c].cur}]
    /\ pc' = [pc EXCEPT ![c] = "approve_next"]
    /\ UNCHANGED <<papers, disk, dirty, leases, req, resp, probe, daemon, questions>>

\* reject: next() yields Some(Err(..)); the loop ends and Err(NotFound) is
\* returned
reject_next_err(c) ==
    /\ pc[c] = "reject_next"
    /\ \E e \in papers :
          /\ e.pos \in {a.pos : a \in hnd[c].todo}
          /\ hnd' = [hnd EXCEPT ![c].cur = AddrOf(e), ![c].eres = "Io",
                                ![c].bad = @ \cup {AddrOf(e)}]
    /\ Respond(c, "NotFound", <<>>)
    /\ UNCHANGED <<papers, disk, dirty, leases, req, probe, daemon, questions>>

NextScan ==
    \E c \in SoleClient :
        \/ \E value \in ScanInputs, now \in Times : post(c, value, now)
        \/ \E value \in ScanInputs, now \in Times : post_io_err(c, value, now)
        \/ unprocessed_select(c)
        \/ unprocessed_next(c)
        \/ unprocessed_next_err(c)
        \/ unprocessed_get_err(c)
        \/ \E pid \in ScanPids : approve_select(c, pid)
        \/ approve_next(c)
        \/ approve_next_err(c)
        \/ approve_get_mut(c)
        \/ approve_get_mut_err(c)
        \/ approve_close(c)
        \/ \E pid \in ScanPids : reject_select(c, pid)
        \/ reject_next(c)
        \/ reject_next_err(c)
        \/ reject_destroy(c)
        \/ Return(c)

SpecScan == InitScan /\ [][NextScan]_vars

(***************************************************************************)
(* The requests of one client, served one after another                    *)
(***************************************************************************)
NextSeq ==
    \E c \in SoleClient :
        \/ \E value \in PostInputs, now \in Times : post(c, value, now)
        \/ \E pid \in ReqPids : approve_select(c, pid)
        \/ approve_next(c)
        \/ approve_get_mut(c)
        \/ approve_close(c)
        \/ \E pid \in ReqPids : reject_select(c, pid)
        \/ reject_next(c)
        \/ reject_destroy(c)
        \/ get_choose(c)
        \/ get_select(c)
        \/ get_next(c)
        \/ get_read(c)
        \/ unprocessed_select(c)
        \/ unprocessed_next(c)
        \/ Return(c)

SpecSeq == Init /\ [][NextSeq]_vars

(***************************************************************************)
(* The scan of a selection, chunk by chunk and entry by entry, with and    *)
(* without hint (crate dmds: Select::iter), modelled from the design, 4.4  *)
(***************************************************************************)
\* no hint given
NoHint == -1

\* the entries a store may hold when a scan starts: every content of
\* ScanInputs, under either status
HintPool ==
    {[pos |-> Locate(Paper_dims(r)), rec |-> r] :
        r \in {[PaperFrom(v, 0) EXCEPT !.status = st] :
                  v \in ScanInputs, st \in {Pending, Approved}}}

\* the index, along one dimension, of the chunk whose range holds a value
ChunkIndex(dim, value) ==
    IF dim = 0 THEN Locate(<<value, 0>>)[1] ELSE Locate(<<0, value>>)[2]

\* the chunks a selection visits: those whose ranges hold the values it is
\* constrained to
ChunksOf(store, cons) ==
    {pos \in {e.pos : e \in store} :
        \A c \in cons : pos[c[1] + 1] = ChunkIndex(c[1], c[2])}

\* the selections by a pid: alone, or together with a status
PidSelections(pid) ==
    {{<<0, pid>>}, {<<0, pid>>, <<1, Pending>>}, {<<0, pid>>, <<1, Approved>>}}

InitHint ==
    /\ papers \in SUBSET HintPool
    /\ disk = {}
    /\ dirty = {e.pos : e \in papers}
    /\ leases = {}
    /\ pc = [c \in Clients |-> "idle"]
    /\ req = [c \in Clients |-> NoReq]
    /\ hnd = [c \in Clients |-> NoHnd]
    /\ resp = [c \in Clients |-> NoResp]
    /\ probe = [stage |-> "none"]
    /\ daemon = NoDaemon
    /\ questions = {}

\* select(..).and(..) with or without .hint(..), then iter()
scan_begin(cons, hint) ==
    /\ probe.stage = "none"
    /\ probe' = [stage |-> "scan", cons |-> cons, hint |-> hint,
                 chunks |-> ChunksOf(papers, cons), rest |-> {}, out |-> {},
                 skipped |-> {}]
    /\ UNCHANGED <<papers, disk, dirty, leases, pc, req, hnd, resp, daemon, questions>>

\* the scan goes on to the next chunk
scan_chunk ==
    /\ probe.stage = "scan"
    /\ probe.rest = {}
    /\ \E pos \in probe.chunks :
          probe' = [probe EXCEPT !.chunks = @ \ {pos},
                                 !.rest = {e \in papers : e.pos = pos}]
    /\ UNCHANGED <<papers, disk, dirty, leases, pc, req, hnd, resp, daemon, questions>>

\* the next entry of the chunk, in whatever order the chunk holds them: it
\* is yielded when it matches the constraints, and when its id is the hint
\* the rest of the chunk is not scanned
scan_entry ==
    /\ probe.stage = "scan"
    /\ \E e \in probe.rest :
          LET found == e.rec.pid = probe.hint
          IN  probe' = [probe EXCEPT
                  !.out = IF e \in Select({e}, probe.cons) THEN @ \cup {e} ELSE @,
                  !.rest = IF found THEN {} ELSE @ \ {e},
                  !.skipped = IF found THEN @ \cup (probe.rest \ {e}) ELSE @]
    /\ UNCHANGED <<papers, disk, dirty, leases, pc, req, hnd, resp, daemon, questions>>

\* no chunk is left: the stream ends
scan_end ==
    /\ probe.stage = "scan"
    /\ probe.rest = {}
    /\ probe.chunks = {}
    /\ probe' = [probe EXCEPT !.stage = "scanned"]
    /\ UNCHANGED <<papers, disk, dirty, leases, pc, req, hnd, resp, daemon, questions>>

NextHint ==
    \/ \E pid \in ScanPids :
          \E cons \in PidSelections(pid), hint \in {pid, NoHint} :
              scan_begin(cons, hint)
    \/ scan_chunk
    \/ scan_entry
    \/ scan_end

SpecHint == InitHint /\ [][NextHint]_vars

(***************************************************************************)
(* question::new over the questions world                                  *)
(***************************************************************************)
\* main.rs, world! of questions: the chunk position of a dimension tuple
LocateQuestion(dims) == <<dims[1] \div QuestionsDim0PerChunk>>

\* World::insert on the questions world (design 4.6): the entry of the same
\* dimension tuple is replaced by the new one and handed back
insert_question(store, value) ==
    LET old == {e \in store : Question_dims(e.rec) = Question_dims(value)}
    IN  [prev |-> old,
         store |-> (store \ old) \cup
                   {[pos |-> LocateQuestion(Question_dims(value)), rec |-> value]}]

\* question.into(), questions.insert(..): Some(previous) is answered
\* PidConflict, None is answered Ok
new(c, value, now) ==
    /\ Idle(c)
    /\ LET question == QuestionFrom(value, now)
           r == insert_question(questions, question)
       IN  /\ req' = [req EXCEPT ![c] = [op |-> "new", pid |-> question.pid,
                                         value |-> question]]
           /\ questions' = r.store
           /\ Respond(c, IF r.prev # {} THEN "PidConflict" ELSE "Ok", <<>>)
    /\ UNCHANGED <<papers, disk, dirty, leases, hnd, probe, daemon>>

\* questions.insert(..) is Err (the chunk cannot be read): map_err answers
\* Db and nothing is stored
new_io_err(c, value, now) ==
    /\ Idle(c)
    /\ LET question == QuestionFrom(value, now)
       IN  req' = [req EXCEPT ![c] = [op |-> "new", pid |-> question.pid,
                                      value |-> question]]
    /\ hnd' = [hnd EXCEPT ![c].eres = "Io"]
    /\ Respond(c, "Db", <<>>)
    /\ UNCHANGED <<papers, disk, dirty, leases, probe, daemon, questions>>

\* the frontend's clients send questions and papers
NextIntake ==
    \E c \in Clients :
        \/ \E value \in PostInputs, now \in Times : new(c, value, now)
        \/ \E value \in PostInputs, now \in Times : new_io_err(c, value, now)
        \/ \E value \in PostInputs, now \in Times : post(c, value, now)
        \/ Return(c)

SpecIntake == Init /\ [][NextIntake]_vars

(***************************************************************************)
(* approve and reject of pending papers, served side by side: the store    *)
(* holds what post left in it, each paper once and Pending                 *)
(***************************************************************************)
InitRace ==
    /\ \E posted \in (SUBSET PostInputs) \ {{}}, now \in Times :
          papers = {[pos |-> Locate(Paper_dims(PaperFrom(v, now))),
                     rec |-> PaperFrom(v, now)] : v \in posted}
    /\ disk = {}
    /\ dirty = {e.pos : e \in papers}
    /\ leases = {}
    /\ pc = [c \in Clients |-> "idle"]
    /\ req = [c \in Clients |-> NoReq]
    /\ hnd = [c \in Clients |-> NoHnd]
    /\ resp = [c \in Clients |-> NoResp]
    /\ probe = [stage |-> "none"]
    /\ daemon = NoDaemon
    /\ questions = {}

NextRace ==
    \E c \in Clients :
        \/ \E pid \in ReqPids : approve_select(c, pid)
        \/ approve_next(c)
        \/ approve_get_mut(c)
        \/ approve_close(c)
        \/ \E pid \in ReqPids : reject_select(c, pid)
        \/ reject_next(c)
        \/ reject_destroy(c)
        \/ Return(c)

SpecRace == InitRace /\ [][NextRace]_vars

(***************************************************************************)
(* Properties                                                              *)
(***************************************************************************)
PendingSel == Select(papers, {<<1, Pending>>})
ApprovedSel == Select(papers, {<<1, Approved>>})

Outs(sel) == {Paper_to_out(e.rec) : e \in sel}

\* client c takes a step of the handler it is running
Moves(c) == <<pc[c], req[c], hnd[c], resp[c]>> # <<pc'[c], req'[c], hnd'[c], resp'[c]>>

\* C1: once a paper A has been approved, no later selection by
\* status = Pending returns A and every later selection by status = Approved
\* returns A.
C1_StatusMoveForever ==
    /\ [](\A e \in ApprovedSel : Paper_to_out(e.rec) \notin Outs(PendingSel))
    /\ [][\A e \in ApprovedSel :
            Paper_to_out(e.rec) \in {Paper_to_out(f.rec) : f \in Select(papers', {<<1, Approved>>})}]_vars

\* C2: the papers store holds at most one record with a given pid, across
\* both status values.
C2_OneRecordPerPid ==
    \A e, f \in papers : e.rec.pid = f.rec.pid => e = f

\* C3: a post whose dimension tuple (pid, Pending) is already stored answers
\* PidConflict and leaves exactly one record under that tuple; a post whose
\* tuple is not stored answers Ok and the paper is then returned by the
\* selections by its pid and by status = Pending, once.
C3_StrictInsert ==
    [][\A c \in Clients :
        (Idle(c) /\ req'[c].op = "post") =>
            LET v == req'[c].value
                under(store) == {e \in store : Paper_dims(e.rec) = Paper_dims(v)}
            IN  /\ Cardinality(under(papers')) = 1
                /\ IF under(papers) # {}
                   THEN resp'[c].status = "PidConflict" /\ papers' = papers
                   ELSE /\ resp'[c].status = "Ok"
                        /\ v \in {e.rec : e \in Select(papers', {<<1, Pending>>})}
                        /\ v \in {e.rec : e \in Select(papers', {<<0, v.pid>>})}]_vars

C3_Witness ==
    \E c \in Clients :
        /\ pc[c] = "done" /\ req[c].op = "post" /\ resp[c].status = "PidConflict"
        /\ Cardinality({e \in papers : Paper_dims(e.rec) = Paper_dims(req[c].value)}) = 1
        /\ \E e \in papers : e.rec.pid = req[c].pid /\ e.rec.time # req[c].value.time

\* C4: at most one mutable lease is outstanding per record, two clients
\* never both hold the mutable view of one record, and a get_mut on a record
\* leased to another caller observes Conflict and obtains nothing.
C4_ExclusiveLease ==
    /\ [](/\ \A l, m \in leases : (l.pos = m.pos /\ l.id = m.id) => l.holder = m.holder
          /\ \A c, d \in Clients :
                (c # d /\ pc[c] = "approve_close" /\ pc[d] = "approve_close")
                    => hnd[c].cur # hnd[d].cur
          /\ \A c \in Clients :
                pc[c] = "approve_close" <=>
                    [holder |-> c, pos |-> hnd[c].cur.pos, id |-> hnd[c].cur.id] \in leases)
    /\ [][\A c \in Clients :
            (pc[c] = "approve_get_mut" /\ Moves(c)
             /\ \E l \in leases : l.pos = hnd[c].cur.pos /\ l.id = hnd[c].cur.id)
                => /\ hnd'[c].eres = "Conflict"
                   /\ pc'[c] = "approve_next"
                   /\ leases' = leases]_vars

C4_Witness ==
    \E c, d \in Clients :
        /\ c # d
        /\ pc[c] = "approve_close"
        /\ req[d].op = "approve" /\ req[d].pid = req[c].pid
        /\ hnd[d].eres = "Conflict"

C6_RoundTrip ==
    /\ probe.stage = "paper_back" =>
          /\ probe.back.ok
          /\ probe.back.val = probe.rec
          /\ bincode_deserialize(probe.bytes).val = Paper_to_store(probe.rec)
          /\ Paper_decode(<<5, 1 - probe.rec.status>>, probe.bytes).val
                = [probe.rec EXCEPT !.pid = 5, !.status = 1 - probe.rec.status]
    /\ probe.stage = "question_back" =>
          /\ probe.back.ok
          /\ probe.back.val = probe.rec
          /\ bincode_deserialize(probe.bytes).val = Question_to_store(probe.rec)

C6_Witness ==
    /\ probe.stage = "paper_back"
    /\ probe.rec.status = Approved
    /\ probe.rec.email # <<>>
    /\ probe.rec.time > 0
    /\ probe.back.ok

\* C7: two conversions of the same content give the same pid whatever the
\* two creation times, for papers and for questions, and a new paper starts
\* with status Pending.
C7_ContentAddressing ==
    /\ probe.stage = "paper_twice" =>
          /\ probe.again.pid = probe.rec.pid
          /\ probe.again.status = Pending
          /\ probe.again.pid = DefaultHasher(probe.value)
    /\ probe.stage = "question_twice" =>
          /\ probe.again.pid = probe.rec.pid
          /\ probe.again.pid = SipHasher24(probe.value)

C7_Witness ==
    /\ probe.stage = "paper_twice"
    /\ probe.again.time # probe.rec.time
    /\ probe.again.pid = probe.rec.pid

\* C8: no step of get or of unprocessed, and no drop of their handles when
\* they return, changes the store: records, durable units, dirty flags and
\* leases stay as they are, whatever the other client is doing.
C8_ReadOnly ==
    [][\A c \in Clients :
        (Moves(c) /\ ({req[c].op, req'[c].op} \cap {"get", "unprocessed"} # {}))
            => UNCHANGED <<papers, disk, dirty, leases>>]_vars

C8_Witness ==
    \E c, d \in Clients :
        /\ c # d
        /\ pc[c] = "done" /\ req[c].op = "unprocessed" /\ Len(resp[c].body) = 2
        /\ pc[d] = "done" /\ req[d].op = "get" /\ resp[d].status = "Ok"
        /\ Cardinality(papers) = 3

\* C9: a restart after a crash finds exactly one copy of every paper that
\* was durable before it was approved.
C9_MoveCrashAtomic ==
    [][crash => \A pid \in ReqPids :
                  Cardinality({e \in papers' : e.rec.pid = pid}) = 1]_vars

\* C10: every stored record lies in the chunk the partition map assigns to
\* its current (pid, status), and in no other, also while a client holds
\* the lease to approve it.
C10_ChunkMembership ==
    /\ \A e \in papers : e.pos = Locate(Paper_dims(e.rec))
    /\ \A e, f \in papers : e.rec = f.rec => e.pos = f.pos

C10_Witness ==
    \E c, d \in Clients :
        /\ c # d
        /\ pc[c] = "approve_close"
        /\ pc[d] = "done" /\ req[d].op = "unprocessed"
        /\ Paper_to_out(hnd[c].val) \in {resp[d].body[i] : i \in 1..Len(resp[d].body)}
        /\ \E e \in ApprovedSel : TRUE

\* C11: a chunk's dirty flag is cleared only by a flush of that chunk that
\* succeeded (the step writes the chunk's durable unit); a flush that fails
\* leaves the chunk dirty and the durable units as they were, the daemon
\* goes on with its cycle, and the next cycle walks every chunk that is
\* still dirty, the failed one among them.
C11_FlushFailureKeepsDirty ==
    /\ [](daemon.pc \in {"sleep", "walk"})
    /\ [][/\ \A pos \in dirty \ dirty' :
                /\ daemon.pc = "walk" /\ pos \in daemon.todo
                /\ pos \notin daemon'.failed
                /\ {d \in disk' : d.pos = pos} = Stored(papers, pos)
          /\ \A pos \in daemon'.failed \ daemon.failed :
                /\ pos \in dirty /\ pos \in dirty'
                /\ disk' = disk
                /\ daemon'.pc = "walk"
                /\ daemon'.todo = daemon.todo \ {pos}
          /\ \A pos \in daemon.failed \cap daemon'.failed : pos \in dirty'
          /\ (daemon.pc = "sleep" /\ daemon'.pc = "walk") =>
                /\ daemon'.todo = dirty
                /\ daemon.failed \subseteq daemon'.todo]_vars

C11_Witness ==
    \E pos \in DaemonPos :
        /\ daemon.pc = "walk"
        /\ pos \in daemon.failed
        /\ pos \in daemon.todo
        /\ pos \in dirty
        /\ \E d \in disk : d.pos # pos

\* C12: under a fair daemon whose writes succeed in the end, every chunk
\* that an insert, an approve or a reject made dirty is flushed at some
\* later time, and when the store stops changing the durable units come to
\* hold, and go on holding, exactly the records of the store.
C12_EventualDurability ==
    /\ \A pos \in DaemonPos : (pos \in dirty) ~> (pos \notin dirty)
    /\ (<>[][papers' = papers]_vars)
          => <>[](dirty = {} /\ Loaded(disk) = papers)

C12_Witness ==
    /\ dirty = {}
    /\ Loaded(disk) = papers
    /\ \E e \in papers : e.rec.status = Approved
    /\ daemon.failed = {}
    /\ \E c \in SoleClient :
          pc[c] = "done" /\ req[c].op = "reject" /\ resp[c].status = "Ok"

\* C13: an unreadable candidate does not end the scan. When unprocessed
\* returns, its list holds every stored pending paper except those whose own
\* read failed; when approve or reject answers NotFound although the
\* requested pending paper is stored, it is that paper's own read that
\* failed, not the read of another entry.
C13_ScanErrorIsolation ==
    [][\A c \in Clients :
        (pc[c] # "done" /\ pc'[c] = "done") =>
            /\ req[c].op = "unprocessed" =>
                  \A e \in PendingSel :
                      AddrOf(e) \notin hnd'[c].bad =>
                          Paper_to_out(e.rec) \in
                              {resp'[c].body[i] : i \in 1..Len(resp'[c].body)}
            /\ (req[c].op \in {"approve", "reject"}
                /\ resp'[c].status = "NotFound") =>
                  \A e \in Select(papers, {<<0, req[c].pid>>, <<1, Pending>>}) :
                      AddrOf(e) \in hnd'[c].bad]_vars

\* C14: Question::decode handed a version that has no decode path returns
\* a decode error and does not panic; version 1, and only version 1, gives
\* the question back.
C14_UnknownVersionIsError ==
    probe.stage = "question_read" =>
        IF probe.version = QuestionVersion
        THEN probe.back.ok /\ probe.back.val = probe.rec
        ELSE /\ ~probe.back.ok
             /\ "panic" \notin DOMAIN probe.back

\* C15: post answers PidConflict only when a paper with the same dimension
\* tuple is stored; when the insert fails with a storage I/O error post
\* answers Db, not PidConflict.
C15_ErrorTaxonomy ==
    [][\A c \in Clients :
        (Idle(c) /\ req'[c].op = "post") =>
            /\ resp'[c].status = "PidConflict" =>
                  \E e \in papers : Paper_dims(e.rec) = Paper_dims(req'[c].value)
            /\ hnd'[c].eres = "Io" => resp'[c].status = "Db"]_vars

\* C16: a get that starts while no paper with status Approved is stored
\* answers NoPaper, and a get that succeeds returns a record that is stored
\* with status Approved, never a pending one.
C16_GetOnlyApproved ==
    [][\A c \in Clients :
        /\ (Idle(c) /\ req'[c].op = "get" /\ ApprovedSel = {}) =>
              pc'[c] = "done" /\ resp'[c].status = "NoPaper"
        /\ (req[c].op = "get" /\ pc[c] # "done" /\ pc'[c] = "done"
            /\ resp'[c].status = "Ok") =>
              /\ resp'[c].body[1].status = Approved
              /\ resp'[c].body[1] \in {e.rec : e \in ApprovedSel}]_vars

\* C17: after any sequence of posts, approves and rejects, the list that
\* unprocessed returns holds the stored papers of status Pending, each
\* exactly once, and nothing else: every element was read from a record
\* that lies under status Pending, none from one under status Approved.
C17_UnprocessedExactlyPending ==
    /\ [](\A c \in Clients :
            (pc[c] = "done" /\ req[c].op = "unprocessed") =>
                LET body == resp[c].body
                IN  /\ resp[c].status = "Ok"
                    /\ Len(body) = Cardinality(PendingSel)
                    /\ \A e \in PendingSel :
                          Cardinality({i \in 1..Len(body) :
                                          body[i] = Paper_to_out(e.rec)}) = 1
                    /\ \A i \in 1..Len(body) : body[i] \in Outs(PendingSel))
    /\ [][\A c \in Clients :
            (pc[c] = "unprocessed_next" /\ hnd'[c].ret # hnd[c].ret) =>
                /\ \E e \in PendingSel :
                      /\ AddrOf(e) = hnd'[c].cur
                      /\ hnd'[c].ret = Append(hnd[c].ret, Paper_to_out(e.rec))
                /\ \A e \in ApprovedSel : AddrOf(e) # hnd'[c].cur]_vars

C17_Witness ==
    \E c \in Clients :
        /\ pc[c] = "done" /\ req[c].op = "unprocessed"
        /\ Len(resp[c].body) = 2
        /\ \E e \in ApprovedSel, f \in PendingSel : e.rec.pid = f.rec.pid

\* C18: a paper only goes from absent to Pending (post), from Pending to
\* Approved (approve) and from Pending to absent (reject). Every step keeps
\* an approved record as it is, keeps a pending record or approves it with
\* pid, name, info, email and time unchanged or removes it, and adds only
\* pending records of a pid that was not stored; no pid that is stored as
\* Approved is stored as Pending afterwards.
C18_RecordLifecycle ==
    [][/\ \A e \in ApprovedSel : e \in papers'
       /\ \A e \in PendingSel :
            \/ e \in papers'
            \/ /\ \E f \in papers' : f.rec = Paper_approve(e.rec)
               /\ \E c \in Clients : req[c].op = "approve" /\ req[c].pid = e.rec.pid
            \/ /\ \A f \in papers' : f.rec.pid # e.rec.pid
               /\ \E c \in Clients : req[c].op = "reject" /\ req[c].pid = e.rec.pid
       /\ \A f \in papers' \ papers :
            \/ /\ f.rec.status = Pending
               /\ \A e \in papers : e.rec.pid # f.rec.pid
               /\ \E c \in Clients : req'[c].op = "post" /\ req'[c].value = f.rec
            \/ /\ f.rec.status = Approved
               /\ \E e \in PendingSel : f.rec = Paper_approve(e.rec)
       /\ \A e \in ApprovedSel :
            \A f \in Select(papers', {<<1, Pending>>}) : f.rec.pid # e.rec.pid]_vars

\* C19: an approve or a reject of a pid that has no stored paper of status
\* Pending finds no candidate, answers NotFound and changes nothing: no step
\* of it adds, removes, moves or modifies a record, marks a chunk dirty or
\* takes a lease.  The same holds of every approve that answers NotFound.
C19_NotFoundUnchanged ==
    [][\A c \in Clients :
        /\ (Idle(c) /\ req'[c].op \in {"approve", "reject"}) =>
              /\ UNCHANGED <<papers, disk, dirty, leases>>
              /\ Select(papers, {<<0, req'[c].pid>>, <<1, Pending>>}) = {}
                    => hnd'[c].todo = {}
        /\ (pc[c] \in {"approve_next", "reject_next"} /\ hnd[c].todo = {}
            /\ Moves(c)) =>
              /\ pc'[c] = "done" /\ resp'[c].status = "NotFound"
              /\ UNCHANGED <<papers, disk, dirty, leases>>
        /\ (pc[c] \in {"approve_next", "approve_get_mut", "reject_next"}
            /\ Moves(c) /\ pc'[c] # "approve_close") =>
              UNCHANGED <<papers, disk, dirty, leases>>
        /\ (pc[c] # "done" /\ pc'[c] = "done" /\ resp'[c].status = "NotFound") =>
              /\ req[c].op \in {"approve", "reject"}
              /\ pc[c] \in {"approve_next", "reject_next"}
              /\ UNCHANGED <<papers, disk, dirty, leases>>]_vars

C19_Witness ==
    \E c, d \in Clients :
        /\ c # d
        /\ pc[c] = "done" /\ req[c].op = "approve" /\ resp[c].status = "NotFound"
        /\ hnd[c].eres = "None"
        /\ \E e \in ApprovedSel : e.rec.pid = req[c].pid
        /\ pc[d] = "done" /\ req[d].op = "reject" /\ resp[d].status = "NotFound"
        /\ \A e \in papers : e.rec.pid # req[d].pid

\* C20: a scan of a selection by a pid, alone or together with a status,
\* yields the records that match the selection, all of them and no other,
\* whether hint(pid) is given or not; the entries the hint leaves unscanned
\* match nothing, and the candidates the handlers take from a hinted
\* selection are those records.
C20_HintEquivalence ==
    probe.stage = "scanned" =>
        /\ probe.out = Select(papers, probe.cons)
        /\ probe.skipped \cap Select(papers, probe.cons) = {}
        /\ probe.hint # NoHint =>
              probe.out = SelectHint(papers, probe.cons, probe.hint)

C20_Witness ==
    /\ probe.stage = "scanned"
    /\ probe.hint # NoHint
    /\ Cardinality(probe.out) = 2
    /\ probe.skipped # {}

\* C21: when question::new or paper::post answers PidConflict, the stored
\* records, the time of the one that was there among them, are after the
\* request what they were before it.
C21_RejectedDuplicateKeeps ==
    [][\A c \in Clients :
        (Idle(c) /\ req'[c].op \in {"new", "post"}
         /\ resp'[c].status = "PidConflict") =>
            /\ questions' = questions
            /\ papers' = papers
            /\ req'[c].op = "new" =>
                  \E e \in questions : e.rec.pid = req'[c].pid
            /\ req'[c].op = "post" =>
                  \E e \in papers : e.rec.pid = req'[c].pid]_vars


\* C22: when approve(pid) and reject(pid) of one pending paper are served side
\* by side, whatever the interleaving, at most one of them answers Ok; if
\* approve answered Ok the paper is stored once, Approved, and if reject
\* answered Ok no record of the pid is stored.
C22_ApproveRejectRace ==
    \A c, d \in Clients :
        (/\ pc[c] = "done" /\ req[c].op = "approve"
         /\ pc[d] = "done" /\ req[d].op = "reject"
         /\ req[c].pid = req[d].pid) =>
            LET stored == {e \in papers : e.rec.pid = req[c].pid}
            IN  /\ ~(resp[c].status = "Ok" /\ resp[d].status = "Ok")
                /\ resp[c].status = "Ok" =>
                      /\ Cardinality(stored) = 1
                      /\ \A e \in stored :
                            /\ e.rec = Paper_approve(hnd[c].val)
                            /\ e.rec.status = Approved
                            /\ e.pos = Locate(Paper_dims(e.rec))
                /\ resp[d].status = "Ok" => stored = {}

\* approve held the lease when reject came to destroy: approve answered Ok,
\* reject was refused
C22_Witness ==
    \E c, d \in Clients :
        /\ pc[c] = "done" /\ req[c].op = "approve" /\ resp[c].status = "Ok"
        /\ pc[d] = "done" /\ req[d].op = "reject" /\ resp[d].status = "Db"
        /\ hnd[d].eres = "Conflict"
        /\ req[c].pid = req[d].pid
        /\ hnd[c].cur = hnd[d].cur

=============================================================================
